---- MODULE Spec2Model ----
(***************************************************************************)
(* Model of github_merge_tester.py (GitHubMergeTesterV2): one sequential   *)
(* run of run_full_test.  The platform (HTTP API), the VCS commands and    *)
(* the user are the environment: every response, exit status and answer is *)
(* chosen nondeterministically.                                            *)
(***************************************************************************)
EXTENDS Naturals, Sequences, FiniteSets

VARIABLES
    pc,              \* position of run_full_test
    token,           \* self.token was set (get_github_token)
    repo_name,       \* self.repo_name was set (get_repo_name)
    checkout,        \* branch checked out in the local working copy
    localBranch,     \* the test branch exists locally
    remoteBranch,    \* the test branch exists on the remote
    markerFile,      \* test_merge_file.txt exists in the working directory
    prState,         \* the test pull request on the platform
    test_branch,     \* local variable test_branch of run_full_test
    pr_number,       \* local variable pr_number of run_full_test
    provStep,        \* next step of create_clean_test_branch
    attempt,         \* loop variable of check_pr_mergeable_status
    pollLog,         \* responses the poller has fetched, in order
    pollMsg,         \* last status line the poller printed
    is_mergeable,    \* local variable is_mergeable of run_full_test
    pr_data,         \* local variable pr_data of run_full_test
    merge_success,   \* local variable merge_success of run_full_test
    cleanStep,       \* next step of cleanup_test_branch
    cleanupRet,      \* where cleanup_test_branch returns to
    cleanupMsg,      \* what cleanup_test_branch printed
    open_prs,        \* open_prs of test_conflict_resolution_strategy
    surveyIdx,       \* position of the for loop over open_prs
    conflicted_prs,  \* conflicted_prs of test_conflict_resolution_strategy
    surveyMsg,       \* what the survey printed
    surveyListed,    \* pull requests whose details the survey printed
    ops,             \* commands and requests issued so far, in order
    failed,          \* commands and requests that failed (non-zero exit, bad status, error)
    confirmed,       \* the user answered yes to Confirm.ask
    surveyLog,       \* detail responses the survey has fetched, in order
    clock            \* total time slept

vars == <<pc, token, repo_name, checkout, localBranch, remoteBranch, markerFile,
          prState, test_branch, pr_number, provStep, attempt, pollLog, pollMsg,
          is_mergeable, pr_data, merge_success, cleanStep, cleanupRet,
          cleanupMsg, open_prs, surveyIdx, conflicted_prs, surveyMsg,
          surveyListed, ops, failed, confirmed, surveyLog, clock>>

(***************************************************************************)
(* Program constants and bounds                                            *)
(***************************************************************************)
max_attempts == 5

Backoff == 3

PostCreateDelay == 2

MaxOpenPRs == 2

MaxTokenLines == 2

(***************************************************************************)
(* Values                                                                  *)
(***************************************************************************)
None == [kind |-> "none", mergeable |-> "none", state |-> "none"]

Obs(m, s) == [kind |-> "ok", mergeable |-> m, state |-> s]

Mergeables == {"true", "false", "null"}

MergeStates == {"clean", "dirty", "unknown", "blocked"}

Non200 == [kind |-> "non200", mergeable |-> "none", state |-> "none"]

ReqError == [kind |-> "error", mergeable |-> "none", state |-> "none"]

Responses == {Obs(m, s) : m \in Mergeables, s \in MergeStates} \cup {Non200, ReqError}

DetailResponses == {Obs("false", "dirty"), Obs("true", "clean"), Non200, ReqError}

ProvSteps == <<"checkout_main", "pull", "checkout_b", "write_marker", "add", "commit", "push">>

CleanSteps == <<"cleanup_checkout_main", "branch_D", "push_delete", "remove_marker">>

Count(name) == Cardinality({i \in DOMAIN ops : ops[i] = name})

(***************************************************************************)
(* check_pr_mergeable_status: what one loop iteration does with the        *)
(* response it fetched.  next = "continue" sleeps and fetches again;       *)
(* next = "return" returns (is_mergeable, pr_data).                        *)
(***************************************************************************)
Ret(m, d, msg) == [next |-> "return", is_mergeable |-> m, pr_data |-> d, msg |-> msg]

Retry == [next |-> "continue", is_mergeable |-> "False", pr_data |-> None, msg |-> "processing"]

\* Variants of Classify, each with one slip in its branch conditions.
Classify_GiveUpEarly(resp, att) ==
    IF resp.kind = "error" THEN Ret("False", None, "error")
    ELSE IF resp.kind # "ok" THEN Ret("False", None, "none")
    ELSE IF resp.mergeable = "true" /\ resp.state = "clean" THEN Ret("True", resp, "ready")
    ELSE IF resp.mergeable = "false" /\ resp.state = "dirty" THEN Ret("False", resp, "conflicts")
    ELSE IF resp.state = "unknown"
    THEN IF att < max_attempts - 2 THEN Retry ELSE Ret("False", None, "processing")
    ELSE Ret("False", resp, "state")

Classify_RecheckClean(resp, att) ==
    IF resp.kind = "error" THEN Ret("False", None, "error")
    ELSE IF resp.kind # "ok" THEN Ret("False", None, "none")
    ELSE IF resp.mergeable = "true" /\ resp.state = "clean"
    THEN IF att = 0 THEN Retry ELSE Ret("True", resp, "ready")
    ELSE IF resp.mergeable = "false" /\ resp.state = "dirty" THEN Ret("False", resp, "conflicts")
    ELSE IF resp.state = "unknown"
    THEN IF att < max_attempts - 1 THEN Retry ELSE Ret("False", None, "processing")
    ELSE Ret("False", resp, "state")

Classify_DirtyRetried(resp, att) ==
    IF resp.kind = "error" THEN Ret("False", None, "error")
    ELSE IF resp.kind # "ok" THEN Ret("False", None, "none")
    ELSE IF resp.mergeable = "true" /\ resp.state = "clean" THEN Ret("True", resp, "ready")
    ELSE IF resp.state \in {"unknown", "dirty"}
    THEN IF att < max_attempts - 1 THEN Retry ELSE Ret("False", None, "processing")
    ELSE Ret("False", resp, "state")

Classify_StateIgnored(resp, att) ==
    IF resp.kind = "error" THEN Ret("False", None, "error")
    ELSE IF resp.kind # "ok" THEN Ret("False", None, "none")
    ELSE IF resp.mergeable = "true" THEN Ret("True", resp, "ready")
    ELSE IF resp.mergeable = "false" /\ resp.state = "dirty" THEN Ret("False", resp, "conflicts")
    ELSE IF resp.state = "unknown"
    THEN IF att < max_attempts - 1 THEN Retry ELSE Ret("False", None, "processing")
    ELSE Ret("False", resp, "state")

Classify_UnknownOnlyNull(resp, att) ==
    IF resp.kind = "error" THEN Ret("False", None, "error")
    ELSE IF resp.kind # "ok" THEN Ret("False", None, "none")
    ELSE IF resp.mergeable = "true" /\ resp.state = "clean" THEN Ret("True", resp, "ready")
    ELSE IF resp.mergeable = "false" /\ resp.state = "dirty" THEN Ret("False", resp, "conflicts")
    ELSE IF resp.state = "unknown" /\ resp.mergeable = "null"
    THEN IF att < max_attempts - 1 THEN Retry ELSE Ret("False", None, "processing")
    ELSE Ret("False", resp, "state")

Classify_SleepOnLast(resp, att) ==
    IF resp.kind = "error" THEN Ret("False", None, "error")
    ELSE IF resp.kind # "ok" THEN Ret("False", None, "none")
    ELSE IF resp.mergeable = "true" /\ resp.state = "clean" THEN Ret("True", resp, "ready")
    ELSE IF resp.mergeable = "false" /\ resp.state = "dirty" THEN Ret("False", resp, "conflicts")
    ELSE IF resp.state = "unknown" THEN Retry
    ELSE Ret("False", resp, "state")

Classify_RetryOnNon200(resp, att) ==
    IF resp.kind = "error" THEN Ret("False", None, "error")
    ELSE IF resp.kind # "ok"
    THEN IF att < max_attempts - 1 THEN Retry ELSE Ret("False", None, "none")
    ELSE IF resp.mergeable = "true" /\ resp.state = "clean" THEN Ret("True", resp, "ready")
    ELSE IF resp.mergeable = "false" /\ resp.state = "dirty" THEN Ret("False", resp, "conflicts")
    ELSE IF resp.state = "unknown"
    THEN IF att < max_attempts - 1 THEN Retry ELSE Ret("False", None, "processing")
    ELSE Ret("False", resp, "state")

Classify(resp, att) ==
    IF resp.kind = "error"
    THEN [next |-> "return", is_mergeable |-> "False", pr_data |-> None, msg |-> "error"]
    ELSE IF resp.kind # "ok"
    THEN [next |-> "return", is_mergeable |-> "False", pr_data |-> None, msg |-> "none"]
    ELSE IF resp.mergeable = "true" /\ resp.state = "clean"
    THEN [next |-> "return", is_mergeable |-> "True", pr_data |-> resp, msg |-> "ready"]
    ELSE IF resp.mergeable = "false" /\ resp.state = "dirty"
    THEN [next |-> "return", is_mergeable |-> "False", pr_data |-> resp, msg |-> "conflicts"]
    ELSE IF resp.state = "unknown"
    THEN IF att < max_attempts - 1
         THEN [next |-> "continue", is_mergeable |-> "False", pr_data |-> None, msg |-> "processing"]
         ELSE [next |-> "return", is_mergeable |-> "False", pr_data |-> None, msg |-> "processing"]
    ELSE [next |-> "return", is_mergeable |-> "False", pr_data |-> resp, msg |-> "state"]

(***************************************************************************)
(* Initial state: a fresh GitHubMergeTesterV2, run_full_test about to run. *)
(***************************************************************************)
Init ==
    /\ pc = "token"
    /\ token = FALSE
    /\ repo_name = FALSE
    /\ checkout \in {"main", "other"}
    /\ localBranch = FALSE
    /\ remoteBranch = FALSE
    /\ markerFile = FALSE
    /\ prState = "none"
    /\ test_branch = "none"
    /\ pr_number = "unbound"
    /\ provStep = 1
    /\ attempt = 0
    /\ pollLog = <<>>
    /\ pollMsg = "none"
    /\ is_mergeable = "unbound"
    /\ pr_data = None
    /\ merge_success = "unbound"
    /\ cleanStep = 1
    /\ cleanupRet = "none"
    /\ cleanupMsg = "none"
    /\ open_prs = <<>>
    /\ surveyIdx = 1
    /\ conflicted_prs = <<>>
    /\ surveyMsg = "none"
    /\ surveyListed = <<>>
    /\ ops = <<>>
    /\ failed = {}
    /\ confirmed = FALSE
    /\ surveyLog = <<>>
    /\ clock = 0

wcVars == <<checkout, localBranch, remoteBranch, markerFile>>

provVars == <<test_branch, provStep>>

pollVars == <<attempt, pollLog, pollMsg, is_mergeable, pr_data>>

cleanVars == <<cleanStep, cleanupRet, cleanupMsg>>

surveyVars == <<open_prs, surveyIdx, conflicted_prs, surveyMsg, surveyListed, surveyLog>>

(***************************************************************************)
(* get_github_token: the credential file is missing, unreadable, or a list *)
(* of lines.  The first line that is not blank after strip() decides: a    *)
(* line with '=' gives the text after the first '=' (possibly empty), any  *)
(* other line is the token itself; an empty token counts as none.          *)
(***************************************************************************)
LineKinds == {"blank", "bare", "key_token", "key_empty"}

TokenFiles ==
    {[exists |-> FALSE, readable |-> FALSE, lines |-> <<>>],
     [exists |-> TRUE, readable |-> FALSE, lines |-> <<>>]}
    \cup {[exists |-> TRUE, readable |-> TRUE, lines |-> l] :
             l \in UNION {[1..n -> LineKinds] : n \in 0..MaxTokenLines}}

RECURSIVE FirstToken(_, _)
FirstToken(lines, i) ==
    IF i > Len(lines) THEN "none"
    ELSE IF lines[i] = "blank" THEN FirstToken(lines, i + 1)
    ELSE IF lines[i] = "key_empty" THEN "empty"
    ELSE "token"

TokenFound(f) == f.exists /\ f.readable /\ FirstToken(f.lines, 1) = "token"

(***************************************************************************)
(* run_full_test, lines 308-318: setup and confirmation                    *)
(***************************************************************************)
GetGithubToken ==
    /\ pc = "token"
    /\ \E f \in TokenFiles :
          /\ token' = TokenFound(f)
          /\ pc' = IF TokenFound(f) THEN "repo" ELSE "done"
    /\ UNCHANGED <<repo_name, confirmed, wcVars, prState, pr_number, provVars, pollVars,
                   merge_success, cleanVars, surveyVars, ops, failed, clock>>

GetRepoName ==
    /\ pc = "repo"
    /\ \E r \in {"match", "no_match", "git_error"} :
          /\ repo_name' = (r = "match")
          /\ pc' = IF r = "match" THEN "confirm" ELSE "done"
    /\ UNCHANGED <<token, confirmed, wcVars, prState, pr_number, provVars, pollVars,
                   merge_success, cleanVars, surveyVars, ops, failed, clock>>

AfterConfirm_Ignored(yes) == "provision"

AfterConfirm(yes) == IF yes THEN "provision" ELSE "done"

ConfirmAsk ==
    /\ pc = "confirm"
    /\ \E yes \in BOOLEAN :
          /\ confirmed' = yes
          /\ pc' = AfterConfirm(yes)
    /\ UNCHANGED <<token, repo_name, wcVars, prState, pr_number, provVars,
                   pollVars, merge_success, cleanVars, surveyVars, ops, failed, clock>>

(***************************************************************************)
(* create_clean_test_branch: one VCS command (or the marker write) per     *)
(* step; a failing step raises, the except clause returns None and         *)
(* run_full_test returns (line 326).                                       *)
(***************************************************************************)
\* subprocess.run(..., check=True): a non-zero exit raises.
StepRaises_Unchecked(ok) == FALSE

StepRaises(ok) == ~ok

CreateCleanTestBranch ==
    /\ pc = "provision"
    /\ provStep <= Len(ProvSteps)
    /\ LET step == ProvSteps[provStep] IN
       \E ok \in BOOLEAN :
          /\ ops' = Append(ops, step)
          /\ failed' = IF ok THEN failed ELSE failed \cup {step}
          /\ checkout' = IF ok /\ step = "checkout_main" THEN "main"
                         ELSE IF ok /\ step = "checkout_b" THEN "test"
                         ELSE checkout
          /\ localBranch' = IF ok /\ step = "checkout_b" THEN TRUE ELSE localBranch
          /\ markerFile' = IF ok /\ step = "write_marker" THEN TRUE ELSE markerFile
          /\ remoteBranch' = IF ok /\ step = "push" THEN TRUE ELSE remoteBranch
          /\ IF StepRaises(ok)
             THEN /\ pc' = "done"
                  /\ UNCHANGED provVars
             ELSE IF provStep = Len(ProvSteps)
             THEN /\ pc' = "create_pr"
                  /\ test_branch' = "test"
                  /\ provStep' = provStep + 1
             ELSE /\ pc' = "provision"
                  /\ provStep' = provStep + 1
                  /\ UNCHANGED test_branch
    /\ UNCHANGED <<token, repo_name, confirmed, prState, pr_number, pollVars, merge_success,
                   cleanVars, surveyVars, clock>>

(***************************************************************************)
(* create_test_pr_clean and run_full_test lines 328-331                    *)
(***************************************************************************)
CreateTestPrClean ==
    /\ pc = "create_pr"
    /\ \E r \in {"created", "non2xx", "error"} :
          /\ IF r = "created"
             THEN /\ prState' = "open"
                  /\ pr_number' = "pr7"
                  /\ ops' = ops \o <<"post_pulls", "sleep_after_create">>
                  /\ UNCHANGED failed
                  /\ clock' = clock + PostCreateDelay
                  /\ pc' = "poll"
                  /\ UNCHANGED cleanupRet
             ELSE /\ ops' = Append(ops, "post_pulls")
                  /\ failed' = failed \cup {"post_pulls"}
                  /\ pc' = "cleanup"
                  /\ cleanupRet' = "return"
                  /\ UNCHANGED <<prState, pr_number, clock>>
    /\ UNCHANGED <<token, repo_name, confirmed, wcVars, provVars, pollVars, merge_success,
                   cleanStep, cleanupMsg, surveyVars>>

(***************************************************************************)
(* run_full_test lines 335-344: the merge is attempted only in the branch  *)
(* taken when is_mergeable is true; otherwise control goes on to line 347. *)
(***************************************************************************)
AfterPoll_Always(m) == "merge"

AfterPoll(m) == IF m = "True" THEN "merge" ELSE "gate"

(***************************************************************************)
(* check_pr_mergeable_status: one iteration of the for loop, or the code   *)
(* after the loop (lines 201-202) once the range is exhausted.             *)
(***************************************************************************)
CheckPrMergeableStatus ==
    /\ pc = "poll"
    /\ IF attempt >= max_attempts
       THEN /\ pollMsg' = "timeout"
            /\ is_mergeable' = "False"
            /\ pr_data' = None
            /\ pc' = AfterPoll("False")
            /\ UNCHANGED <<attempt, pollLog, ops, clock>>
       ELSE \E resp \in Responses :
               LET r == Classify(resp, attempt) IN
               /\ pollLog' = Append(pollLog, resp)
               /\ pollMsg' = r.msg
               /\ IF r.next = "continue"
                  THEN /\ ops' = ops \o <<"get_pull", "sleep_backoff">>
                       /\ clock' = clock + Backoff
                       /\ attempt' = attempt + 1
                       /\ pc' = "poll"
                       /\ UNCHANGED <<is_mergeable, pr_data>>
                  ELSE /\ ops' = Append(ops, "get_pull")
                       /\ is_mergeable' = r.is_mergeable
                       /\ pr_data' = r.pr_data
                       /\ pc' = AfterPoll(r.is_mergeable)
                       /\ UNCHANGED <<attempt, clock>>
    /\ UNCHANGED <<token, repo_name, confirmed, wcVars, prState, pr_number, provVars,
                   merge_success, cleanVars, surveyVars, failed>>

(***************************************************************************)
(* test_auto_merge_clean, called at line 336                               *)
(***************************************************************************)
AfterMerge_Retry(r) == IF r = "200" THEN "gate" ELSE "merge"

AfterMerge(r) == "gate"

TestAutoMergeClean ==
    /\ pc = "merge"
    /\ \E r \in {"200", "non200", "error"} :
          /\ ops' = Append(ops, "put_merge")
          /\ failed' = IF r = "200" THEN failed ELSE failed \cup {"put_merge"}
          /\ merge_success' = IF r = "200" THEN "True" ELSE "False"
          /\ prState' = IF r = "200" THEN "merged" ELSE prState
          /\ pc' = AfterMerge(r)
    /\ UNCHANGED <<token, repo_name, confirmed, wcVars, pr_number, provVars, pollVars,
                   cleanVars, surveyVars, clock>>

(***************************************************************************)
(* run_full_test lines 347-348: "if not merge_success".  merge_success is  *)
(* assigned only at line 336; reading it unassigned raises                 *)
(* UnboundLocalError, which nothing catches.                               *)
(***************************************************************************)
CleanupGate ==
    /\ pc = "gate"
    /\ IF merge_success = "unbound"
       THEN /\ pc' = "crashed"
            /\ UNCHANGED cleanupRet
       ELSE IF merge_success = "False"
       THEN /\ pc' = "cleanup"
            /\ cleanupRet' = "survey"
       ELSE /\ pc' = "survey_list"
            /\ UNCHANGED cleanupRet
    /\ UNCHANGED <<token, repo_name, confirmed, wcVars, prState, pr_number, provVars,
                   pollVars, merge_success, cleanStep, cleanupMsg, surveyVars,
                   ops, failed, clock>>

(***************************************************************************)
(* cleanup_test_branch: one step per action; a failing step raises and the *)
(* except clause prints a warning; either way the function returns.        *)
(***************************************************************************)
AfterCleanup == IF cleanupRet = "return" THEN "done" ELSE "survey_list"

\* A step that raises goes to the except clause (lines 258-259), which
\* prints the warning; the function then returns to its caller.
CleanupFailed_Propagates == "crashed"

CleanupFailed == AfterCleanup

CleanupStepRaises_Unchecked(ok) == FALSE

CleanupStepRaises(ok) == ~ok

CleanupTestBranch ==
    /\ pc = "cleanup"
    /\ cleanStep <= Len(CleanSteps)
    /\ LET step == CleanSteps[cleanStep] IN
       \E ok \in BOOLEAN :
          /\ ops' = Append(ops, step)
          /\ failed' = IF ok THEN failed ELSE failed \cup {step}
          /\ checkout' = IF ok /\ step = "cleanup_checkout_main" THEN "main" ELSE checkout
          /\ localBranch' = IF ok /\ step = "branch_D" THEN FALSE ELSE localBranch
          /\ remoteBranch' = IF ok /\ step = "push_delete" THEN FALSE ELSE remoteBranch
          /\ markerFile' = IF ok /\ step = "remove_marker" THEN FALSE ELSE markerFile
          /\ IF CleanupStepRaises(ok)
             THEN /\ cleanupMsg' = "warning"
                  /\ pc' = CleanupFailed
                  /\ UNCHANGED cleanStep
             ELSE IF cleanStep = Len(CleanSteps)
             THEN /\ cleanupMsg' = "done"
                  /\ pc' = AfterCleanup
                  /\ cleanStep' = cleanStep + 1
             ELSE /\ pc' = "cleanup"
                  /\ cleanStep' = cleanStep + 1
                  /\ UNCHANGED cleanupMsg
    /\ UNCHANGED <<token, repo_name, confirmed, prState, test_branch, pr_number, provStep,
                   pollVars, merge_success, cleanupRet, surveyVars, clock>>

(***************************************************************************)
(* test_conflict_resolution_strategy                                       *)
(***************************************************************************)
Numbers(n) == [i \in 1..n |-> i]

SurveyList ==
    /\ pc = "survey_list"
    /\ ops' = Append(ops, "list_pulls")
    /\ \E r \in {"200", "non200", "error"} :
          IF r = "200"
          THEN \E n \in 0..MaxOpenPRs :
                  /\ open_prs' = Numbers(n)
                  /\ pc' = IF n = 0 THEN "survey_report" ELSE "survey_detail"
                  /\ UNCHANGED <<surveyMsg, failed>>
          ELSE /\ surveyMsg' = IF r = "error" THEN "error" ELSE "none"
               /\ failed' = failed \cup {"list_pulls"}
               /\ pc' = "final"
               /\ UNCHANGED open_prs
    /\ UNCHANGED <<token, repo_name, confirmed, wcVars, prState, pr_number, provVars,
                   pollVars, merge_success, cleanVars, surveyIdx, conflicted_prs,
                   surveyListed, surveyLog, clock>>

SurveyDetail ==
    /\ pc = "survey_detail"
    /\ surveyIdx <= Len(open_prs)
    /\ ops' = Append(ops, "get_pull_detail")
    /\ \E d \in DetailResponses :
          /\ surveyLog' = Append(surveyLog, d)
          /\ IF d.kind = "error"
             THEN /\ surveyMsg' = "error"
                  /\ pc' = "final"
                  /\ UNCHANGED <<surveyIdx, conflicted_prs>>
             ELSE /\ conflicted_prs' = IF d.kind = "ok" /\ d.state = "dirty"
                                       THEN Append(conflicted_prs, open_prs[surveyIdx])
                                       ELSE conflicted_prs
                  /\ surveyIdx' = surveyIdx + 1
                  /\ pc' = IF surveyIdx = Len(open_prs) THEN "survey_report" ELSE "survey_detail"
                  /\ UNCHANGED surveyMsg
    /\ UNCHANGED <<token, repo_name, confirmed, wcVars, prState, pr_number, provVars,
                   pollVars, merge_success, cleanVars, open_prs, surveyListed,
                   failed, clock>>

\* Lines 286-289: pr = conflicted_prs[0]; its number, head ref and base ref
\* are the only details printed.
Detailed_Last(c) == <<c[Len(c)]>>

Detailed(c) == <<c[1]>>

SurveyReport ==
    /\ pc = "survey_report"
    /\ IF conflicted_prs # <<>>
       THEN /\ surveyMsg' = "found"
            /\ surveyListed' = Detailed(conflicted_prs)
       ELSE /\ surveyMsg' = "no_conflicts"
            /\ UNCHANGED surveyListed
    /\ pc' = "final"
    /\ UNCHANGED <<token, repo_name, confirmed, wcVars, prState, pr_number, provVars,
                   pollVars, merge_success, cleanVars, open_prs, surveyIdx,
                   conflicted_prs, surveyLog, ops, failed, clock>>

(***************************************************************************)
(* run_full_test lines 355-360: final report, then return                  *)
(***************************************************************************)
FinalReport ==
    /\ pc = "final"
    /\ pc' = "done"
    /\ UNCHANGED <<token, repo_name, confirmed, wcVars, prState, pr_number, provVars,
                   pollVars, merge_success, cleanVars, surveyVars, ops, failed, clock>>

Next ==
    \/ GetGithubToken
    \/ GetRepoName
    \/ ConfirmAsk
    \/ CreateCleanTestBranch
    \/ CreateTestPrClean
    \/ CheckPrMergeableStatus
    \/ TestAutoMergeClean
    \/ CleanupGate
    \/ CleanupTestBranch
    \/ SurveyList
    \/ SurveyDetail
    \/ SurveyReport
    \/ FinalReport

Spec == Init /\ [][Next]_vars

(***************************************************************************)
(* Derived notions used by the properties                                  *)
(***************************************************************************)
RunEnded == pc \in {"done", "crashed"}

PollReturned == is_mergeable # "unbound"

Fetches == Count("get_pull")

Waits == Count("sleep_backoff")

MergeCalls == Count("put_merge")

CleanupCalled == Count("cleanup_checkout_main") >= 1

Clean == Obs("true", "clean")

Dirty == Obs("false", "dirty")

IsUnknown(o) == o.kind = "ok" /\ o.state = "unknown"

IsAmbiguous(o) == o.kind = "ok" /\ o # Clean /\ o # Dirty /\ o.state # "unknown"

LastResponse == IF pollLog = <<>> THEN None ELSE pollLog[Len(pollLog)]

\* The outcome of the poll, read off the return statement taken and the
\* status line printed just before it.
PollOutcome ==
    IF ~PollReturned THEN "pending"
    ELSE IF is_mergeable = "True" THEN "ready-clean"
    ELSE IF pollMsg = "conflicts" THEN "conflicted"
    ELSE IF pollMsg = "state" THEN "ambiguous"
    ELSE IF pollMsg \in {"processing", "timeout"} THEN "timed-out"
    ELSE "fetch-failed"

(***************************************************************************)
(* C1: the merge request is issued if and only if the poll ended           *)
(* ready-clean, i.e. its last observation was (true, clean) and it         *)
(* returned True; after any other poll outcome no merge request is issued. *)
(***************************************************************************)
C1_MergeIffReadyClean ==
    /\ MergeCalls >= 1 => (PollOutcome = "ready-clean" /\ LastResponse = Clean)
    /\ (PollReturned /\ pc # "merge" /\ PollOutcome = "ready-clean") => MergeCalls >= 1
    /\ (PollReturned /\ LastResponse # Clean) => (PollOutcome # "ready-clean" /\ MergeCalls = 0)

C1_Witness ==
    /\ RunEnded
    /\ PollOutcome = "ready-clean"
    /\ MergeCalls = 1

(***************************************************************************)
(* C2: when the test branch and its pull request were created, the run     *)
(* ends with cleanup_test_branch having been invoked if and only if the    *)
(* merge did not succeed.                                                  *)
(***************************************************************************)
C2_CleanupIffNotMerged ==
    (RunEnded /\ pr_number # "unbound") => (CleanupCalled <=> merge_success # "True")

(***************************************************************************)
(* C3: a poll whose observations were all mergeable_state unknown returns  *)
(* after exactly 5 fetches, with the not-ready result of exhausted         *)
(* attempts; no poll ever fetches more than 5 times.                       *)
(***************************************************************************)
C3_AllUnknownFiveFetches ==
    /\ Fetches <= 5
    /\ (PollReturned /\ \A i \in DOMAIN pollLog : IsUnknown(pollLog[i]))
          => (Fetches = 5 /\ Len(pollLog) = 5 /\ PollOutcome = "timed-out")

C3_Witness ==
    /\ PollReturned
    /\ Len(pollLog) = 5
    /\ \A i \in DOMAIN pollLog : IsUnknown(pollLog[i])

(***************************************************************************)
(* C4: an observation (true, clean) is always the last one fetched: the    *)
(* poll returns ready-clean on it, with no further fetch and no wait after *)
(* it; as the first observation it means one fetch and no wait.            *)
(***************************************************************************)
C4_CleanStopsPoll ==
    \A i \in DOMAIN pollLog :
        pollLog[i] = Clean =>
            /\ i = Len(pollLog)
            /\ PollOutcome = "ready-clean"
            /\ pr_data = Clean
            /\ Fetches = i
            /\ Waits = i - 1
            /\ (i = 1 => (Fetches = 1 /\ Waits = 0))

C4_Witness ==
    /\ pollLog = <<Clean>>
    /\ PollOutcome = "ready-clean"

(***************************************************************************)
(* C5: an observation (false, dirty) is always the last one fetched: the   *)
(* poll returns conflicted on it, with no further fetch and no wait after  *)
(* it; as the first observation it means exactly one fetch.                *)
(***************************************************************************)
C5_DirtyStopsPoll ==
    \A i \in DOMAIN pollLog :
        pollLog[i] = Dirty =>
            /\ i = Len(pollLog)
            /\ PollOutcome = "conflicted"
            /\ pr_data = Dirty
            /\ Fetches = i
            /\ Waits = i - 1
            /\ (i = 1 => Fetches = 1)

C5_Witness ==
    /\ pollLog = <<Dirty>>
    /\ PollOutcome = "conflicted"

(***************************************************************************)
(* C6: an observation that is neither (true, clean) nor (false, dirty) and *)
(* whose state is not unknown ends the poll on that fetch with the         *)
(* ambiguous result: no retry, never ready-clean, and no merge request     *)
(* follows.                                                                *)
(***************************************************************************)
C6_OtherIsAmbiguous ==
    \A i \in DOMAIN pollLog :
        IsAmbiguous(pollLog[i]) =>
            /\ i = Len(pollLog)
            /\ PollOutcome = "ambiguous"
            /\ is_mergeable = "False"
            /\ pr_data = pollLog[i]
            /\ Fetches = i
            /\ Waits = i - 1
            /\ MergeCalls = 0
            /\ pc # "merge"

C6_Witness ==
    /\ pollLog = <<Obs("null", "blocked")>>
    /\ PollOutcome = "ambiguous"
    /\ RunEnded

(***************************************************************************)
(* C7: every unknown observation fetched while attempts remain is followed *)
(* by exactly one wait of 3 time units and then a fresh fetch; the         *)
(* sequence unknown, unknown, (true, clean) gives ready-clean after        *)
(* exactly 3 fetches and 2 waits, at least 6 time units having elapsed.    *)
(***************************************************************************)
C7_UnknownWaitsThenRefetches ==
    /\ Waits = Cardinality({i \in DOMAIN pollLog : IsUnknown(pollLog[i]) /\ i < 5})
    /\ clock = Count("sleep_after_create") * 2 + Waits * 3
    /\ \A j \in DOMAIN ops :
          ops[j] = "sleep_backoff" =>
             /\ j > 1 /\ ops[j - 1] = "get_pull"
             /\ j < Len(ops) => ops[j + 1] = "get_pull"
             /\ j = Len(ops) => (pc = "poll" /\ attempt < 5)
    /\ (/\ Len(pollLog) = 3
        /\ IsUnknown(pollLog[1])
        /\ IsUnknown(pollLog[2])
        /\ pollLog[3] = Clean)
          => /\ PollOutcome = "ready-clean"
             /\ Fetches = 3
             /\ Waits = 2
             /\ clock - Count("sleep_after_create") * 2 >= 6

C7_Witness ==
    /\ Len(pollLog) = 3
    /\ IsUnknown(pollLog[1])
    /\ IsUnknown(pollLog[2])
    /\ pollLog[3] = Clean
    /\ PollOutcome = "ready-clean"

(***************************************************************************)
(* C8: the merge request is issued at most once in a run, exactly once     *)
(* after a ready-clean poll, and nothing after it is another merge request *)
(* or another poll fetch, whether it succeeded or failed.                  *)
(***************************************************************************)
C8_MergeAtMostOnce ==
    /\ MergeCalls <= 1
    /\ (PollOutcome = "ready-clean" /\ pc # "merge") => MergeCalls = 1
    /\ \A i, j \in DOMAIN ops :
          (i < j /\ ops[i] = "put_merge") => ops[j] \notin {"put_merge", "get_pull"}
    /\ merge_success = "False" => pc \notin {"merge", "poll"}

C8_Witness ==
    /\ merge_success = "False"
    /\ MergeCalls = 1
    /\ RunEnded

(***************************************************************************)
(* C9: once the survey is over, the detail of every open pull request has  *)
(* been fetched: a failed detail fetch skips that pull request only and    *)
(* the enumeration goes on with the pull requests after it.                *)
(***************************************************************************)
C9_SurveySkipsFailedFetch ==
    pc \in {"final", "done"} => Count("get_pull_detail") = Len(open_prs)

(***************************************************************************)
(* C10: a run that has executed checkout -b successfully ends with the     *)
(* local checkout back on trunk.                                           *)
(***************************************************************************)
C10_TrunkRestored ==
    (RunEnded /\ provStep > 3) => checkout = "main"

(***************************************************************************)
(* Further derived notions                                                 *)
(***************************************************************************)
Range(q) == {q[i] : i \in DOMAIN q}

ProvisioningFailed == failed \cap (Range(ProvSteps) \cup {"post_pulls"}) # {}

CleanupStepFailed == failed \cap Range(CleanSteps) # {}

SurveyStarted == Count("list_pulls") >= 1

(***************************************************************************)
(* C11: a run in which a provisioning step (a VCS step of                  *)
(* create_clean_test_branch or the pull-request creation) or the merge     *)
(* attempt failed ends with cleanup_test_branch having been invoked.       *)
(***************************************************************************)
C11_FailureTriggersCleanup ==
    (RunEnded /\ (ProvisioningFailed \/ "put_merge" \in failed)) => CleanupCalled

(***************************************************************************)
(* C12: a failed cleanup step is reported with the warning and does not    *)
(* abort the run: control returns to the caller of cleanup_test_branch as  *)
(* after a successful cleanup, and on the post-merge path the run goes on  *)
(* to the survey and ends normally.                                        *)
(***************************************************************************)
C12_CleanupFailureDoesNotAbort ==
    /\ CleanupStepFailed =>
          /\ cleanupMsg = "warning"
          /\ pc # "crashed"
          /\ pc # "cleanup"
          /\ cleanupRet = "return" => pc = "done"
          /\ cleanupRet = "survey" =>
                pc \in {"survey_list", "survey_detail", "survey_report", "final", "done"}
    /\ (RunEnded /\ CleanupCalled /\ cleanupRet = "survey") =>
          (pc = "done" /\ SurveyStarted)
    /\ (RunEnded /\ CleanupCalled /\ cleanupRet = "return") =>
          (pc = "done" /\ ~SurveyStarted)

C12_Witness ==
    /\ "push_delete" \in failed
    /\ cleanupRet = "survey"
    /\ pc = "done"
    /\ SurveyStarted

(***************************************************************************)
(* C13: the provisioning steps are issued in the order checkout trunk,     *)
(* pull, create branch, write marker, stage, commit, push, create pull     *)
(* request; a step that failed is the last provisioning step issued, so    *)
(* nothing is pushed after a failed commit, no pull request is requested   *)
(* after a failed VCS step and nothing is polled or merged after a failed  *)
(* pull-request creation.                                                  *)
(***************************************************************************)
C13_ProvisionOrderShortCircuit ==
    LET order == <<"checkout_main", "pull", "checkout_b", "write_marker",
                   "add", "commit", "push", "post_pulls">>
    IN /\ \A i \in DOMAIN ops : i <= 8 => ops[i] = order[i]
       /\ \A i \in 1..8 : Count(order[i]) <= 1
       /\ \A i, j \in 1..8 : (i < j /\ order[i] \in failed) => Count(order[j]) = 0
       /\ "commit" \in failed => Count("push") = 0
       /\ ProvisioningFailed =>
             (Count("get_pull") = 0 /\ Count("put_merge") = 0 /\ pollLog = <<>>)

C13_Witness ==
    /\ "commit" \in failed
    /\ Count("add") = 1
    /\ RunEnded

(***************************************************************************)
(* C14: a run in which the pull request was created ends normally, after   *)
(* the survey and the final report, whatever the poll returned.            *)
(***************************************************************************)
C14_RunReachesSurvey ==
    (RunEnded /\ pr_number # "unbound") => (pc = "done" /\ SurveyStarted)

(***************************************************************************)
(* C15: what the poll returns after 5 unknown observations differs from    *)
(* what it returns for a conflicted or ambiguous observation and from what *)
(* it returns for a fetch that failed with a non-200 status or an error.   *)
(***************************************************************************)
C15_TimeoutDistinguishable ==
    (PollReturned /\ Len(pollLog) = 5 /\ \A i \in DOMAIN pollLog : IsUnknown(pollLog[i]))
        => LET bad == Classify(Non200, 0)
               err == Classify(ReqError, 0)
               con == Classify(Dirty, 0)
               amb == Classify(Obs("null", "blocked"), 0)
           IN <<is_mergeable, pr_data>> \notin
                 {<<x.is_mergeable, x.pr_data>> : x \in {bad, err, con, amb}}

(***************************************************************************)
(* C16: whatever the platform answers, the poll fetches at most 5 times    *)
(* and waits at most 4 times, and has returned once the 5th fetch is done; *)
(* when it has returned, the waits number one less than the fetches, so no *)
(* wait follows the last fetch.                                            *)
(***************************************************************************)
C16_PollBounded ==
    /\ Fetches <= 5
    /\ Waits <= 4
    /\ pc = "poll" => (attempt < 5 /\ Fetches = attempt /\ Waits = attempt)
    /\ Fetches = 5 => PollReturned
    /\ PollReturned => (Fetches >= 1 /\ Waits = Fetches - 1)

C16_Witness ==
    /\ PollReturned
    /\ Fetches = 5
    /\ Waits = 4
    /\ LastResponse = Non200

(***************************************************************************)
(* C17: a poll fetch is repeated only after an unknown observation; a      *)
(* fetch that failed (non-200 status or request error) is the last one and *)
(* the poll returns not ready on it with no wait; every VCS command, the   *)
(* pull-request creation and the merge request are issued at most once,    *)
(* failed or not.                                                          *)
(***************************************************************************)
C17_OnlyUnknownRetried ==
    /\ \A i \in DOMAIN pollLog :
          /\ i > 1 => IsUnknown(pollLog[i - 1])
          /\ pollLog[i].kind # "ok" =>
                /\ i = Len(pollLog)
                /\ PollReturned
                /\ is_mergeable = "False"
                /\ Fetches = i
                /\ Waits = i - 1
    /\ \A name \in Range(ops) \ {"get_pull", "sleep_backoff", "get_pull_detail"} :
          Count(name) = 1

C17_Witness ==
    /\ Len(pollLog) = 2
    /\ pollLog[2] = ReqError
    /\ "put_merge" \notin Range(ops)
    /\ RunEnded

(***************************************************************************)
(* C18: when the survey prints its report, the pull requests it details    *)
(* (number, head ref, base ref) are exactly the open pull requests whose   *)
(* fetched mergeable_state was dirty.                                      *)
(***************************************************************************)
DirtyFetched ==
    {open_prs[i] : i \in {k \in DOMAIN surveyLog :
                             surveyLog[k].kind = "ok" /\ surveyLog[k].state = "dirty"}}

C19_NothingBeforeSetup ==
    LET ready == token /\ repo_name /\ confirmed IN
    /\ ops # <<>> => ready
    /\ pc \notin {"token", "repo", "confirm", "done"} => ready
    /\ ~ready =>
          /\ ~localBranch /\ ~remoteBranch /\ ~markerFile
          /\ prState = "none"
          /\ failed = {}
    /\ repo_name => token
    /\ confirmed => repo_name

C19_Witness ==
    /\ RunEnded
    /\ token
    /\ repo_name
    /\ ~confirmed
    /\ ops = <<>>

====
